---- MODULE Spec2Model ----
(***************************************************************************)
(* A model of the Cube ray tracer (Paul-1511/Cube): the colour packing,    *)
(* the texture sampler and its registry, the sphere and cube intersection  *)
(* tests, the shadow test, the recursive cast_ray, the lazily loaded       *)
(* skybox and the parallel render loop driven by main.                     *)
(*                                                                         *)
(* Numbers.  The program computes in f32.  The model computes in fixed     *)
(* point on values for which the f32 operations are exact:                 *)
(*   - a colour channel is an integer count of 1/CQ;                       *)
(*   - a texture coordinate or a texture scale is an integer count of      *)
(*     1/UQ;                                                               *)
(*   - a length is an integer count of SHADOW_BIAS (1e-4 in the program),  *)
(*     a point or a vector is a triple of lengths, and a ray direction is  *)
(*     one of the six signed unit axes.                                    *)
(***************************************************************************)
EXTENDS Integers, Sequences, FiniteSets, TLC

VARIABLES
    pc,          \* harness of the pure functions: "init" | "done"
    inp,         \* the drawn input of the pure function under check
    out,         \* its result
    IMAGE_REG,   \* texture.rs: the image registry, id -> decoded image
    regRet,      \* the last register_image call: its id, its path and what it returned
    mainPc,      \* main: "setup" | "loop" | "render" | "exit" ("off": main not run)
    frames,      \* render calls started
    SKYBOX_IMG,  \* skybox.rs: the OnceCell<Option<DynamicImage>>
    skyFs,       \* the file system at the skybox's candidate paths
    buffer,      \* framebuffer.buffer: slot -> packed colour
    pending,     \* buffer indices the parallel iterator has not handed out yet
    task,        \* worker thread -> the for_each closure call it is running
    writes,      \* slot -> writes to it in the current render call
    wrote,       \* slot -> the index and pixel of the call that wrote it last
    initRuns,    \* runs of the skybox initializer so far
    fsTouches,   \* file system calls (exists, open) of the skybox so far
    scene,       \* the arguments of the primary cast_ray call: objects, lights, ray
    stack,       \* the call stack of cast_ray, the running call last
    castRes,     \* what the primary cast_ray call returned
    castCalls,   \* cast_ray calls made so far, the primary one included
    castDepth    \* the greatest depth argument of a cast_ray call so far

pureVars == <<pc, inp, out>>
texVars == <<IMAGE_REG, regRet>>
renderVars == <<mainPc, frames, SKYBOX_IMG, skyFs, buffer, pending, task, writes,
                wrote, initRuns, fsTouches>>
castVars == <<scene, stack, castRes, castCalls, castDepth>>
vars == <<pureVars, texVars, renderVars, castVars>>

None == "none"

\* regRet before any register_image call
NoCall == [id |-> 0, path |-> "none", ret |-> FALSE]

\* a map with no key
EmptyMap == [k \in {} |-> None]

-----------------------------------------------------------------------------
(* Arithmetic helpers                                                      *)

Abs(x) == IF x < 0 THEN -x ELSE x
Min(a, b) == IF a < b THEN a ELSE b
Max(a, b) == IF a > b THEN a ELSE b

RECURSIVE Pow2(_)
Pow2(n) == IF n = 0 THEN 1 ELSE 2 * Pow2(n - 1)

\* a | b on non-negative integers
RECURSIVE BitOr(_, _)
BitOr(a, b) ==
    IF a = 0 THEN b
    ELSE IF b = 0 THEN a
    ELSE (IF (a % 2 = 1) \/ (b % 2 = 1) THEN 1 ELSE 0) + 2 * BitOr(a \div 2, b \div 2)

\* x << n on u32: the bits of x from bit 32 - n up are shifted out
Shl(x, n) == (x % Pow2(32 - n)) * Pow2(n)

-----------------------------------------------------------------------------
(* color.rs                                                                *)

\* resolution of a colour channel: a channel value c stands for c / CQ
\* (two binary digits after the point)
CQ == Pow2(2)

Color(r, g, b) == [r |-> r, g |-> g, b |-> b]

black == Color(0, 0, 0)

\* f32::clamp(lo, hi) on a channel
F32Clamp(x, lo, hi) == IF x < lo THEN lo ELSE IF x > hi THEN hi ELSE x

\* `as u32` on a channel: truncation toward zero, saturating at 0
AsU32(x) == IF x < 0 THEN 0 ELSE x \div CQ

to_hex_noclamp(c) ==
    BitOr(BitOr(Shl(AsU32(c.r), 16), Shl(AsU32(c.g), 8)), AsU32(c.b))

to_hex(c) ==
    BitOr(BitOr(Shl(AsU32(F32Clamp(c.r, 0, 255 * CQ)), 16),
                Shl(AsU32(F32Clamp(c.g, 0, 255 * CQ)), 8)),
          AsU32(F32Clamp(c.b, 0, 255 * CQ)))

\* Color::blend with the factor f a count of 1/fq
blend(c1, c2, f, fq) ==
    LET ff == F32Clamp(f, 0, fq)
    IN  Color((c1.r * (fq - ff) + c2.r * ff) \div fq,
              (c1.g * (fq - ff) + c2.g * ff) \div fq,
              (c1.b * (fq - ff) + c2.b * ff) \div fq)

\* Add for Color
ColorAdd(c1, c2) == Color(c1.r + c2.r, c1.g + c2.g, c1.b + c2.b)

\* Mul<f32> for Color with the scalar s a count of 1/sq
ColorMul(c, s, sq) == Color((c.r * s) \div sq, (c.g * s) \div sq, (c.b * s) \div sq)


-----------------------------------------------------------------------------
(* texture.rs                                                              *)

\* resolution of a texture coordinate and of a texture scale: u stands for u / UQ
\* (two binary digits after the point)
UQ == Pow2(2)

\* resolution of a sine value: hundredths
SQ == 10 * 10

\* f32::floor of p / q (q > 0), then `as i32`
Floor(p, q) == p \div q

\* f32::fract of p / q (q > 0) as a count of 1/q: p/q - trunc(p/q), the sign of p
\* kept
Fract(p, q) == p - q * (IF p >= 0 THEN p \div q ELSE -((-p) \div q))

\* the % of i32: the remainder has the sign of the dividend
RustRem(a, b) == IF a >= 0 THEN a % b ELSE -((-a) % b)

\* f32::sin of p / q as a count of 1/SQ.  The angle is reduced to [0, 2 pi) with
\* pi = 355 / 113 and the half wave is Bhaskara's 16 y (pi - y) / (5 pi^2 - 4 y (pi - y)).
Sin(p, q) ==
    LET P  == 355 * q
        r  == (113 * p) % (2 * P)
        y  == IF r <= P THEN r ELSE r - P
        yy == y * (P - y)
        m  == (16 * yy) \div ((5 * P * P - 4 * yy) \div SQ)
    IN  IF r <= P THEN m ELSE -m

\* the decoded images: width, height and the RGB bytes of each pixel
ImgA ==
    [w |-> 2, h |-> 2,
     px |-> [p \in (0..1) \X (0..1) |-> <<10 + 100 * p[1], 20 + 100 * p[2], 30>>]]

\* image::open(path): the files that decode, every other path is an Err
ImageOpen(path) ==
    IF path = "src/assets/marmol.jpg" THEN [ok |-> TRUE, img |-> ImgA]
    ELSE IF path = "assets/other.png"
    THEN [ok |-> TRUE,
          img |-> [w |-> 1, h |-> 2,
                   px |-> [p \in (0..0) \X (0..1) |-> <<7, 7, 70 * p[2]>>]]]
    ELSE [ok |-> FALSE, img |-> None]

\* HashMap::insert
MapInsert(map, k, v) == [x \in DOMAIN map \cup {k} |-> IF x = k THEN v ELSE map[x]]

\* register_image(id, path): the registry afterwards and the returned bool
register_image_always(reg, id, path) ==
    LET o == ImageOpen(path)
    IN  [reg |-> MapInsert(reg, id, IF o.ok THEN o.img ELSE ImgA), ret |-> TRUE]

register_image(reg, id, path) ==
    LET o == ImageOpen(path)
    IN  IF o.ok
        THEN [reg |-> MapInsert(reg, id, o.img), ret |-> TRUE]
        ELSE [reg |-> reg, ret |-> FALSE]

\* the two colours of the procedural textures
TexColor1 == Color(240 * CQ, 240 * CQ, 240 * CQ)
TexColor2 == Color(210 * CQ, 180 * CQ, 20 * CQ)

Checker(scale) == [kind |-> "Checker", scale |-> scale, axis |-> "U", id |-> 0]
Stripes(scale, axis) == [kind |-> "Stripes", scale |-> scale, axis |-> axis, id |-> 0]
MarbleProc(scale) == [kind |-> "MarbleProc", scale |-> scale, axis |-> "U", id |-> 0]
Image(id, scale) == [kind |-> "Image", scale |-> scale, axis |-> "U", id |-> id]

\* the pixel coordinate ((uu * w) as u32).min(w - 1), uu a count of 1/q
PixelIndex(uu, q, w) == Min(IF uu < 0 THEN 0 ELSE (uu * w) \div q, w - 1)

\* Texture::sample(u, v) against the registry reg; u, v and scale count 1/UQ
sample(reg, tex, u, v) ==
    CASE tex.kind = "Checker" ->
            LET s == Floor(u * tex.scale, UQ * UQ) + Floor(v * tex.scale, UQ * UQ)
            IN  IF RustRem(s, 2) = 0 THEN TexColor1 ELSE TexColor2
      [] tex.kind = "Stripes" ->
            LET t == IF tex.axis = "U" THEN u ELSE v
            IN  IF RustRem(Floor(t * tex.scale, UQ * UQ), 2) = 0
                THEN TexColor1 ELSE TexColor2
      [] tex.kind = "MarbleProc" ->
            \* t = 0.5 * (s + 1), s = (sin(u scale) + sin(1.5 v scale)) * 0.5
            LET s2 == Sin(u * tex.scale, UQ * UQ) + Sin(3 * v * tex.scale, 2 * UQ * UQ)
            IN  blend(TexColor1, TexColor2, s2 + 2 * SQ, 4 * SQ)
      [] tex.kind = "Image" ->
            IF tex.id \in DOMAIN reg
            THEN LET img == reg[tex.id]
                     uu  == Fract(u * tex.scale, UQ * UQ)
                     vv  == Fract(v * tex.scale, UQ * UQ)
                     x   == PixelIndex(uu, UQ * UQ, img.w)
                     y   == PixelIndex(vv, UQ * UQ, img.h)
                     p   == img.px[<<x, y>>]
                 IN  Color(p[1] * CQ, p[2] * CQ, p[3] * CQ)
            ELSE Color(200 * CQ, 200 * CQ, 200 * CQ)

\* cast_ray's lookup of the base colour: tex.sample(u.fract(), v.fract())
TextureLookup_nofract(reg, tex, u, v) == sample(reg, tex, u, v)

TextureLookup(reg, tex, u, v) == sample(reg, tex, Fract(u, UQ), Fract(v, UQ))



-----------------------------------------------------------------------------
(* material.rs                                                             *)

\* resolution of reflectivity, transparency, albedo, index of refraction and of
\* the shadow factor: tenths
WQ == 2 * 5

NoTexture == [some |-> FALSE, tex |-> Checker(0)]
SomeTexture(t) == [some |-> TRUE, tex |-> t]
NoColor == [some |-> FALSE, c |-> black]
SomeColor(c) == [some |-> TRUE, c |-> c]

\* Material::new: no texture, reflectivity 0, transparency 0, ior 1, no emission
MaterialNew(diffuse, specular, albedo) ==
    [diffuse |-> diffuse, specular |-> specular, albedo |-> albedo,
     is_crystal |-> FALSE, texture |-> NoTexture, reflectivity |-> 0,
     transparency |-> 0, ior |-> WQ, roughness |-> 0, emission |-> NoColor]

\* Material::black
MaterialBlack == MaterialNew(black, 0, <<0, 0>>)

with_texture(m, t) == [m EXCEPT !.texture = SomeTexture(t)]
with_reflectivity(m, r) == [m EXCEPT !.reflectivity = r]
with_transparency(m, t) == [m EXCEPT !.transparency = t]
with_ior(m, i) == [m EXCEPT !.ior = i]
with_emission(m, c) == [m EXCEPT !.emission = SomeColor(c)]

-----------------------------------------------------------------------------
(* Vec3 on lengths                                                         *)

Vec3(x, y, z) == <<x, y, z>>
Zeros == <<0, 0, 0>>
VAdd(a, b) == <<a[1] + b[1], a[2] + b[2], a[3] + b[3]>>
VSub(a, b) == <<a[1] - b[1], a[2] - b[2], a[3] - b[3]>>
VScale(a, k) == <<a[1] * k, a[2] * k, a[3] * k>>
VNeg(a) == <<-a[1], -a[2], -a[3]>>
Dot(a, b) == a[1] * b[1] + a[2] * b[2] + a[3] * b[3]

\* the six signed unit axes
Axes == {<<1, 0, 0>>, <<-1, 0, 0>>, <<0, 1, 0>>, <<0, -1, 0>>, <<0, 0, 1>>, <<0, 0, -1>>}

\* a vector along one axis: exactly one component is not zero
IsAxisAligned(v) == Cardinality({i \in 1..3 : v[i] # 0}) = 1

IsSquare(n) == n >= 0 /\ \E k \in 0..n : k * k = n

\* f32::sqrt, on the squares (the only arguments the model's inputs lead to)
Sqrt(n) == CHOOSE k \in 0..n : k * k = n

\* Vec3::magnitude
Magnitude(v) == Sqrt(Dot(v, v))

\* Vec3::normalize of a vector along one axis
Normalize(v) == LET m == Magnitude(v) IN <<v[1] \div m, v[2] \div m, v[3] \div m>>

Signum(x) == IF x < 0 THEN -1 ELSE 1

-----------------------------------------------------------------------------
(* ray_intersect.rs                                                        *)

NoUv == [some |-> FALSE, u |-> 0, v |-> 0]

\* Intersect::new
IntersectNew(point, normal, distance, material) ==
    [point |-> point, normal |-> normal, distance |-> distance,
     is_intersecting |-> TRUE, material |-> material, uv |-> NoUv]

\* Intersect::with_uv
with_uv(i, u, v) == [i EXCEPT !.uv = [some |-> TRUE, u |-> u, v |-> v]]

\* Intersect::empty
IntersectEmpty ==
    [point |-> Zeros, normal |-> Zeros, distance |-> 0,
     is_intersecting |-> FALSE, material |-> MaterialBlack, uv |-> NoUv]

-----------------------------------------------------------------------------
(* sphere.rs                                                               *)

Sphere(center, radius, material) ==
    [kind |-> "Sphere", center |-> center, radius |-> radius, size |-> 0,
     material |-> material]

\* atan2(z, x) / (pi / 2) for a unit axis (x, z components), atan2(0, 0) = 0
QuarterTurns(z, x) ==
    IF z > 0 THEN 1 ELSE IF z < 0 THEN -1 ELSE IF x < 0 THEN 2 ELSE 0

\* u = 0.5 + atan2(dir.z, dir.x) / (2 pi), v = 0.5 - asin(dir.y) / pi, counts of 1/UQ
SphereU(dir) == UQ \div 2 + (UQ * QuarterTurns(dir[3], dir[1])) \div 4
SphereV(dir) == UQ \div 2 - (UQ * dir[2]) \div 2

\* the test t < 0.0 of the chosen root
SphereRejects(t) == t < 0

\* Sphere::ray_intersect
SphereIntersect(s, ray_origin, ray_direction) ==
    LET l   == VSub(s.center, ray_origin)
        tca == Dot(l, ray_direction)
        d2  == Dot(l, l) - tca * tca
        radius2 == s.radius * s.radius
    IN  IF tca < 0 THEN IntersectEmpty
        ELSE IF d2 > radius2 THEN IntersectEmpty
        ELSE LET thc == Sqrt(radius2 - d2)
                 t0  == tca - thc
                 t1  == tca + thc
                 t   == IF t0 < 0 THEN t1 ELSE t0
             IN  IF SphereRejects(t) THEN IntersectEmpty
                 ELSE LET point  == VAdd(ray_origin, VScale(ray_direction, t))
                          normal == Normalize(VSub(point, s.center))
                          dir    == Normalize(VSub(point, s.center))
                      IN  with_uv(IntersectNew(point, normal, t, s.material),
                                  SphereU(dir), SphereV(dir))

\* the inputs on which the sphere test is exact in the model: the square root is
\* taken of a square and the hit normal lies along an axis
SphereExact(s, ray_origin, ray_direction) ==
    LET l   == VSub(s.center, ray_origin)
        tca == Dot(l, ray_direction)
        d2  == Dot(l, l) - tca * tca
        radius2 == s.radius * s.radius
    IN  \/ tca < 0
        \/ d2 > radius2
        \/ /\ IsSquare(radius2 - d2)
           /\ LET thc == Sqrt(radius2 - d2)
                  t   == IF tca - thc < 0 THEN tca + thc ELSE tca - thc
              IN  IsAxisAligned(VSub(VAdd(ray_origin, VScale(ray_direction, t)),
                                     s.center))

-----------------------------------------------------------------------------
(* cube.rs                                                                 *)

Cube(center, size, material) ==
    [kind |-> "Cube", center |-> center, radius |-> 0, size |-> size,
     material |-> material]

\* f32 infinities and NaN among the slab parameters
PInf == 1000000
NaN == 2 * PInf

\* (bound - origin) * (1.0 / direction) for a direction component in {-1, 0, 1}:
\* 1.0 / 0.0 is +inf, and 0.0 * inf is NaN
SlabT(delta, d) ==
    IF d # 0 THEN delta * d
    ELSE IF delta > 0 THEN PInf ELSE IF delta < 0 THEN -PInf ELSE NaN

\* f32::min and f32::max: a NaN operand is ignored
FMin(a, b) == IF a = NaN THEN b ELSE IF b = NaN THEN a ELSE Min(a, b)
FMax(a, b) == IF a = NaN THEN b ELSE IF b = NaN THEN a ELSE Max(a, b)

\* a normal choice that gives a tie to the earlier axis
CubeNormal_earlier(lp) ==
    LET abs_x == Abs(lp[1])
        abs_y == Abs(lp[2])
        abs_z == Abs(lp[3])
    IN  IF abs_x >= abs_y /\ abs_x >= abs_z THEN Vec3(Signum(lp[1]), 0, 0)
        ELSE IF abs_y >= abs_z THEN Vec3(0, Signum(lp[2]), 0)
        ELSE Vec3(0, 0, Signum(lp[3]))

\* the hit normal from the local hit point
CubeNormal(lp) ==
    LET abs_x == Abs(lp[1])
        abs_y == Abs(lp[2])
        abs_z == Abs(lp[3])
    IN  IF abs_x > abs_y /\ abs_x > abs_z THEN Vec3(Signum(lp[1]), 0, 0)
        ELSE IF abs_y > abs_z THEN Vec3(0, Signum(lp[2]), 0)
        ELSE Vec3(0, 0, Signum(lp[3]))

\* the test t <= 0.0 of the chosen slab parameter
CubeRejects(t) == t <= 0

\* Cube::ray_intersect; the size is an even count, half_size = size / 2.0
CubeIntersect(c, ray_origin, ray_direction) ==
    LET half_size == c.size \div 2
        min == VSub(c.center, Vec3(half_size, half_size, half_size))
        max == VAdd(c.center, Vec3(half_size, half_size, half_size))
        t1 == SlabT(min[1] - ray_origin[1], ray_direction[1])
        t2 == SlabT(max[1] - ray_origin[1], ray_direction[1])
        t3 == SlabT(min[2] - ray_origin[2], ray_direction[2])
        t4 == SlabT(max[2] - ray_origin[2], ray_direction[2])
        t5 == SlabT(min[3] - ray_origin[3], ray_direction[3])
        t6 == SlabT(max[3] - ray_origin[3], ray_direction[3])
        tmin == FMax(FMax(FMin(t1, t2), FMin(t3, t4)), FMin(t5, t6))
        tmax == FMin(FMin(FMax(t1, t2), FMax(t3, t4)), FMax(t5, t6))
    IN  IF tmax < 0 \/ tmin > tmax THEN IntersectEmpty
        ELSE LET t == IF tmin > 0 THEN tmin ELSE tmax
             IN  IF CubeRejects(t) THEN IntersectEmpty
                 ELSE LET point  == VAdd(ray_origin, VScale(ray_direction, t))
                          lp     == VSub(point, c.center)
                          normal == CubeNormal(lp)
                          half   == half_size
                          uv == IF Abs(normal[1]) > 0
                                THEN <<((lp[3] + half) * UQ) \div (2 * half),
                                       ((lp[2] + half) * UQ) \div (2 * half)>>
                                ELSE IF Abs(normal[2]) > 0
                                THEN <<((lp[1] + half) * UQ) \div (2 * half),
                                       ((lp[3] + half) * UQ) \div (2 * half)>>
                                ELSE <<((lp[1] + half) * UQ) \div (2 * half),
                                       ((lp[2] + half) * UQ) \div (2 * half)>>
                      IN  with_uv(IntersectNew(point, normal, t, c.material),
                                  uv[1], uv[2])

\* RayIntersect::ray_intersect, dispatched on the primitive
ray_intersect(obj, ray_origin, ray_direction) ==
    IF obj.kind = "Sphere" THEN SphereIntersect(obj, ray_origin, ray_direction)
    ELSE CubeIntersect(obj, ray_origin, ray_direction)

\* the inputs on which ray_intersect is exact in the model
IntersectExact(obj, ray_origin, ray_direction) ==
    obj.kind = "Sphere" => SphereExact(obj, ray_origin, ray_direction)


-----------------------------------------------------------------------------
(* ray_casting.rs: the shadow test                                         *)

SHADOW_BIAS == 1
MAX_RAY_DEPTH == 3

\* Light::new(position, color, intensity)
Light(position, color, intensity) ==
    [position |-> position, color |-> color, intensity |-> intensity]

\* the origin of a secondary ray: the point moved by the bias along the normal, to
\* the side the direction dir leaves on
BiasedOrigin(point, normal, dir) ==
    IF Dot(dir, normal) < 0
    THEN VSub(point, VScale(normal, SHADOW_BIAS))
    ELSE VAdd(point, VScale(normal, SHADOW_BIAS))

\* whether an object of objects[from..] occludes: the loop of cast_shadow
RECURSIVE AnyOccluder(_, _, _, _, _)
AnyOccluder(objects, from, shadow_origin, light_dir, light_distance) ==
    IF from > Len(objects) THEN FALSE
    ELSE LET shadow_i == ray_intersect(objects[from], shadow_origin, light_dir)
         IN  IF shadow_i.is_intersecting /\ shadow_i.distance < light_distance
             THEN TRUE
             ELSE AnyOccluder(objects, from + 1, shadow_origin, light_dir,
                              light_distance)

\* a shadow test that looks at the last primitive only
cast_shadow_last(intersect, light, objects) ==
    LET light_dir == Normalize(VSub(light.position, intersect.point))
        light_distance == Magnitude(VSub(light.position, intersect.point))
        shadow_origin == BiasedOrigin(intersect.point, intersect.normal, light_dir)
    IN  IF AnyOccluder(objects, Max(1, Len(objects)), shadow_origin, light_dir,
                       light_distance)
        THEN (3 * WQ) \div 10 ELSE WQ

\* cast_shadow: 0.3 when some primitive is hit nearer than the light, else 1.0
cast_shadow(intersect, light, objects) ==
    LET light_dir == Normalize(VSub(light.position, intersect.point))
        light_distance == Magnitude(VSub(light.position, intersect.point))
        shadow_origin == BiasedOrigin(intersect.point, intersect.normal, light_dir)
    IN  IF AnyOccluder(objects, 1, shadow_origin, light_dir, light_distance)
        THEN (3 * WQ) \div 10 ELSE WQ

\* the inputs on which the shadow test is exact in the model
ShadowExact(intersect, light, objects) ==
    /\ IsAxisAligned(VSub(light.position, intersect.point))
    /\ LET light_dir == Normalize(VSub(light.position, intersect.point))
           shadow_origin == BiasedOrigin(intersect.point, intersect.normal, light_dir)
       IN  \A k \in 1..Len(objects) :
              IntersectExact(objects[k], shadow_origin, light_dir)


-----------------------------------------------------------------------------
(* skybox.rs                                                               *)

\* the candidate paths of load_skybox_if_needed, in the order tried
Candidates == <<"assets/sky.exr", "src/assets/sky.exr">>

\* the panorama a candidate decodes to
SkyImage(k) ==
    [w |-> 2, h |-> 2,
     px |-> [p \in (0..1) \X (0..1) |-> <<40 * k + 100 * p[1], 50 + 100 * p[2], 200>>]]

\* OnceCell::new(), and the cell holding Some(None) or Some(Some(img))
Unset == [set |-> FALSE, some |-> FALSE, img |-> SkyImage(0)]
Absent == [set |-> TRUE, some |-> FALSE, img |-> SkyImage(0)]
Loaded(img) == [set |-> TRUE, some |-> TRUE, img |-> img]

\* the gradient of sample_color: horizon.blend(base, 0.5 * (direction.y + 1.0))
SkyGradient(direction) ==
    blend(Color(255 * CQ, 255 * CQ, 255 * CQ), Color(135 * CQ, 206 * CQ, 235 * CQ),
          direction[2] + 1, 2)

\* Skybox::sample_color once load_skybox_if_needed has returned, for a direction
\* along an axis: u = 0.5 + atan2(x, z) / (2 pi), v = 0.5 + asin(y) / pi
sample_color(cell, direction) ==
    IF cell.set /\ cell.some
    THEN LET img == cell.img
             dir == Normalize(direction)
             u   == UQ \div 2 + (UQ * QuarterTurns(dir[1], dir[3])) \div 4
             v   == UQ \div 2 + (UQ * dir[2]) \div 2
             x   == PixelIndex(Fract(u, UQ), UQ, img.w)
             y   == PixelIndex(UQ - Fract(v, UQ), UQ, img.h)
             p   == img.px[<<x, y>>]
         IN  Color(p[1] * CQ, p[2] * CQ, p[3] * CQ)
    ELSE SkyGradient(direction)

-----------------------------------------------------------------------------
(* ray_casting.rs: render, and main.rs: main                               *)

\* framebuffer.width and framebuffer.height
FbWidth == 2
FbHeight == 2
\* rayon's worker threads
NWorkers == 2
\* render calls of main's loop before the window closes
MaxFrames == 2
\* the most sample_color calls the cast_ray of one pixel makes
MaxSkyCalls == 1

Slots == 0..(FbWidth * FbHeight - 1)
Workers == 1..NWorkers

\* world_dir of the pixel with buffer index idx: rows look up, level and down
PrimaryDir(idx) ==
    LET y == idx \div FbWidth
    IN  IF y % 3 = 0 THEN <<0, 1, 0>> ELSE IF y % 3 = 1 THEN <<0, 0, -1>> ELSE <<0, -1, 0>>

\* the sample_color calls of the cast_ray of the pixel with buffer index idx, in a
\* scene every ray leaves: the primary ray's, or that of a secondary ray
SkyCallsOf(idx) == 1 + (idx % MaxSkyCalls)

\* x = idx % width, y = idx / width
PixelOf(idx) == <<idx % FbWidth, idx \div FbWidth>>

Idle ==
    [idx |-> -1, x |-> 0, y |-> 0, phase |-> "idle", sky |-> 0, dir |-> Zeros,
     col |-> black, cand |-> 0]

\* Framebuffer::clear
FbClear(buf) == [i \in DOMAIN buf |-> 0]

\* the render variables of a specification that runs no main
NoRender ==
    /\ mainPc = "off"
    /\ frames = 0
    /\ SKYBOX_IMG = Unset
    /\ skyFs = <<"missing", "missing">>
    /\ buffer = [i \in Slots |-> 0]
    /\ pending = {}
    /\ task = [w \in Workers |-> Idle]
    /\ writes = [i \in Slots |-> 0]
    /\ wrote = [i \in Slots |-> [idx |-> -1, x |-> -1, y |-> -1]]
    /\ initRuns = 0
    /\ fsTouches = 0

\* the sequences over S of length at most n
RECURSIVE SeqsUpTo(_, _)
SeqsUpTo(S, n) ==
    IF n = 0 THEN {<<>>}
    ELSE LET shorter == SeqsUpTo(S, n - 1)
         IN  shorter \cup {Append(q, x) : q \in shorter, x \in S}

-----------------------------------------------------------------------------
(* ray_casting.rs: cast_ray                                                *)

\* reflect(incident, normal) = incident - 2 (incident . normal) normal
reflect(incident, normal) == VSub(incident, VScale(normal, 2 * Dot(incident, normal)))

\* a refract that knows no total internal reflection: it gives the mirror
\* direction
refract_at_reflects(q, incident, normal, eta) ==
    [some |-> TRUE,
     dir  |-> VSub(VScale(incident, q * q),
                   VScale(normal, 2 * Dot(incident, normal)))]

\* refract on unit vectors given as counts of 1/q, eta a count of 1/WQ: cosi is a
\* count of 1/q, k2 is k * (etat * q)^2, and the direction is returned scaled by
\* etat * q^2 (its callers normalize it)
refract_at(q, incident, normal, eta) ==
    LET cosi == F32Clamp((-Dot(incident, normal)) \div q, -q, q)
        cosi_local == IF cosi < 0 THEN -cosi ELSE cosi
        n    == IF cosi < 0 THEN VNeg(normal) ELSE normal
        etai == IF cosi < 0 THEN eta ELSE WQ
        etat == IF cosi < 0 THEN WQ ELSE eta
        k2   == etat * etat * q * q - etai * etai * (q * q - cosi_local * cosi_local)
    IN  IF k2 < 0 THEN [some |-> FALSE, dir |-> Zeros]
        ELSE [some |-> TRUE,
              dir  |-> VAdd(VScale(incident, etai * q),
                            VScale(n, etai * cosi_local - Sqrt(k2)))]

\* refract on vectors of whole components
refract(incident, normal, eta) == refract_at(1, incident, normal, eta)

\* a loop that also takes a hit at the distance of the closest so far
RECURSIVE ClosestFrom_orEqual(_, _, _, _, _, _)
ClosestFrom_orEqual(objects, from, ray_origin, ray_direction, closest, z) ==
    IF from > Len(objects) THEN closest
    ELSE LET i == ray_intersect(objects[from], ray_origin, ray_direction)
         IN  IF i.is_intersecting /\ i.distance <= z
             THEN ClosestFrom_orEqual(objects, from + 1, ray_origin, ray_direction, i,
                                      i.distance)
             ELSE ClosestFrom_orEqual(objects, from + 1, ray_origin, ray_direction,
                                      closest, z)

\* the loop over the primitives: the nearest intersection of objects[from..],
\* given the nearest so far and its distance z
RECURSIVE ClosestFrom(_, _, _, _, _, _)
ClosestFrom(objects, from, ray_origin, ray_direction, closest, z) ==
    IF from > Len(objects) THEN closest
    ELSE LET i == ray_intersect(objects[from], ray_origin, ray_direction)
         IN  IF i.is_intersecting /\ i.distance < z
             THEN ClosestFrom(objects, from + 1, ray_origin, ray_direction, i,
                              i.distance)
             ELSE ClosestFrom(objects, from + 1, ray_origin, ray_direction, closest, z)

\* closest after the loop, from Intersect::empty() and z = f32::INFINITY
Closest(objects, ray_origin, ray_direction) ==
    ClosestFrom(objects, 1, ray_origin, ray_direction, IntersectEmpty, PInf)

\* what cast_ray returns when no primitive is hit
MissColor_black(cell, ray_direction) == black

MissColor(cell, ray_direction) == sample_color(cell, ray_direction)

\* base_diffuse: the texture sample when the material has a texture and the hit a uv
BaseDiffuse(reg, closest) ==
    IF closest.material.texture.some /\ closest.uv.some
    THEN TextureLookup(reg, closest.material.texture.tex, closest.uv.u, closest.uv.v)
    ELSE closest.material.diffuse

\* f32::powf(b, e) for b in {0, 1} and e >= 0
Powf(b, e) == IF e = 0 THEN 1 ELSE b

\* the loop over the lights: local after lights[from..]
RECURSIVE LocalFrom(_, _, _, _, _, _, _)
LocalFrom(lights, from, local, closest, base_diffuse, ray_direction, objects) ==
    IF from > Len(lights) THEN local
    ELSE LET light     == lights[from]
             light_dir == Normalize(VSub(light.position, closest.point))
             intensity == cast_shadow(closest, light, objects)
             diffuse_strength == Max(Dot(closest.normal, light_dir), 0)
             diffuse   == ColorMul(ColorMul(base_diffuse, diffuse_strength, 1),
                                   intensity, WQ)
             reflect_dir == reflect(VNeg(light_dir), closest.normal)
             view_dir  == Normalize(VNeg(ray_direction))
             specular  ==
                 ColorMul(ColorMul(ColorMul(light.color, closest.material.albedo[2], WQ),
                                   Powf(Max(Dot(view_dir, reflect_dir), 0),
                                        closest.material.specular), 1),
                          intensity, WQ)
         IN  LocalFrom(lights, from + 1, ColorAdd(ColorAdd(local, diffuse), specular),
                       closest, base_diffuse, ray_direction, objects)

\* local: the ambient term base_diffuse * 0.1, then the lights
LocalIllumination(reg, closest, ray_direction, objects, lights) ==
    LET base_diffuse == BaseDiffuse(reg, closest)
    IN  LocalFrom(lights, 1, ColorMul(base_diffuse, 1, WQ), closest, base_diffuse,
                  ray_direction, objects)

\* r, t and base_w of a material
ReflWeight(m) == F32Clamp(m.reflectivity, 0, WQ)
TransWeight(m) == F32Clamp(m.transparency, 0, WQ)
BaseWeight(m) == Max(WQ - ReflWeight(m) - TransWeight(m), 0)

\* the test depth < MAX_RAY_DEPTH of both recursive calls
MayRecurse_always(depth) == TRUE

\* a guard that lets a call at the depth bound recurse once more
MayRecurse_atBound(depth) == depth <= MAX_RAY_DEPTH

MayRecurse(depth) == depth < MAX_RAY_DEPTH

\* out_color = local * base_w + refl_col * r + refr_col * t, plus the emission
Composite(m, local, refl_col, refr_col) ==
    LET out_color ==
            ColorAdd(ColorAdd(ColorMul(local, BaseWeight(m), WQ),
                              ColorMul(refl_col, ReflWeight(m), WQ)),
                     ColorMul(refr_col, TransWeight(m), WQ))
    IN  IF m.emission.some THEN ColorAdd(out_color, m.emission.c) ELSE out_color

\* the activation record of a cast_ray call; calls counts the recursive calls it
\* has made
Frame(ray_origin, ray_direction, depth) ==
    [origin |-> ray_origin, dir |-> ray_direction, depth |-> depth, stage |-> "enter",
     closest |-> IntersectEmpty, local |-> black, refl_col |-> black,
     refr_col |-> black, col |-> black, calls |-> 0]

Top == stack[Len(stack)]
SetTop(f) == [stack EXCEPT ![Len(stack)] = f]

\* render's call cast_ray(&camera.position, &world_dir, objects, lights, 0)
CastStart ==
    /\ stack = <<>>
    /\ castCalls = 0
    /\ stack' = <<Frame(scene.origin, scene.dir, 0)>>
    /\ castCalls' = 1
    /\ UNCHANGED <<pureVars, texVars, renderVars, scene, castRes, castDepth>>

\* the depth test, the loop over the primitives and the miss test
CastScan ==
    /\ stack # <<>>
    /\ Top.stage = "enter"
    /\ LET f == Top
           closest == Closest(scene.objects, f.origin, f.dir)
       IN  stack' = SetTop(
               IF f.depth > MAX_RAY_DEPTH
               THEN [f EXCEPT !.stage = "ret", !.col = sample_color(SKYBOX_IMG, f.dir)]
               ELSE IF ~closest.is_intersecting
               THEN [f EXCEPT !.stage = "ret", !.col = MissColor(SKYBOX_IMG, f.dir)]
               ELSE [f EXCEPT !.stage = "shade", !.closest = closest])
    /\ UNCHANGED <<pureVars, texVars, renderVars, scene, castRes, castCalls, castDepth>>

\* the base colour and the local illumination
CastShade ==
    /\ stack # <<>>
    /\ Top.stage = "shade"
    /\ stack' = SetTop([Top EXCEPT
           !.stage = "reflect",
           !.local = LocalIllumination(IMAGE_REG, Top.closest, Top.dir, scene.objects,
                                       scene.lights)])
    /\ UNCHANGED <<pureVars, texVars, renderVars, scene, castRes, castCalls, castDepth>>

\* a recursive call that passes its own depth on
CastCall_sameDepth(at, dir) ==
    LET f == Top
        origin == BiasedOrigin(f.closest.point, f.closest.normal, dir)
    IN  /\ stack' = Append(SetTop([f EXCEPT !.stage = at, !.calls = f.calls + 1]),
                           Frame(origin, Normalize(dir), f.depth))
        /\ castCalls' = castCalls + 1
        /\ castDepth' = Max(castDepth, f.depth)

\* a recursive call cast_ray(&origin, &dir, objects, lights, depth + 1); the caller
\* waits at `at`
CastCall(at, dir) ==
    LET f == Top
        origin == BiasedOrigin(f.closest.point, f.closest.normal, dir)
    IN  /\ stack' = Append(SetTop([f EXCEPT !.stage = at, !.calls = f.calls + 1]),
                           Frame(origin, Normalize(dir), f.depth + 1))
        /\ castCalls' = castCalls + 1
        /\ castDepth' = Max(castDepth, f.depth + 1)

\* the reflection branch
CastReflect ==
    /\ stack # <<>>
    /\ Top.stage = "reflect"
    /\ IF ReflWeight(Top.closest.material) > 0 /\ MayRecurse(Top.depth)
       THEN CastCall("reflect_wait", reflect(Normalize(Top.dir), Top.closest.normal))
       ELSE /\ stack' = SetTop([Top EXCEPT !.stage = "refract"])
            /\ UNCHANGED <<castCalls, castDepth>>
    /\ UNCHANGED <<pureVars, texVars, renderVars, scene, castRes>>

\* the refraction branch
CastRefract ==
    /\ stack # <<>>
    /\ Top.stage = "refract"
    /\ LET eta == Max(Top.closest.material.ior, WQ)
           d   == refract(Normalize(Top.dir), Top.closest.normal, eta)
       IN  IF TransWeight(Top.closest.material) > 0 /\ MayRecurse(Top.depth) /\ d.some
           THEN CastCall("refract_wait", d.dir)
           ELSE /\ stack' = SetTop([Top EXCEPT !.stage = "compose"])
                /\ UNCHANGED <<castCalls, castDepth>>
    /\ UNCHANGED <<pureVars, texVars, renderVars, scene, castRes>>

\* the composite and the emission
CastCompose ==
    /\ stack # <<>>
    /\ Top.stage = "compose"
    /\ stack' = SetTop([Top EXCEPT
           !.stage = "ret",
           !.col = Composite(Top.closest.material, Top.local, Top.refl_col,
                             Top.refr_col)])
    /\ UNCHANGED <<pureVars, texVars, renderVars, scene, castRes, castCalls, castDepth>>

\* a call returns: to render, or into refl_col or refr_col of its caller
CastReturn ==
    /\ stack # <<>>
    /\ Top.stage = "ret"
    /\ IF Len(stack) = 1
       THEN /\ stack' = <<>>
            /\ castRes' = SomeColor(Top.col)
       ELSE LET caller == stack[Len(stack) - 1]
                rest   == SubSeq(stack, 1, Len(stack) - 2)
            IN  /\ stack' = Append(rest,
                       IF caller.stage = "reflect_wait"
                       THEN [caller EXCEPT !.stage = "refract", !.refl_col = Top.col]
                       ELSE [caller EXCEPT !.stage = "compose", !.refr_col = Top.col])
                /\ UNCHANGED castRes
    /\ UNCHANGED <<pureVars, texVars, renderVars, scene, castCalls, castDepth>>

\* the cast_ray variables of a specification that casts no ray
NoCast ==
    /\ scene = [objects |-> <<>>, lights |-> <<>>, origin |-> Zeros, dir |-> Zeros]
    /\ stack = <<>>
    /\ castRes = NoColor
    /\ castCalls = 0
    /\ castDepth = 0

-----------------------------------------------------------------------------
(* Specification Spec: main registers the texture, then runs the frame     *)
(* loop; each render call fans the buffer indices out to the workers       *)

Init ==
    /\ pc = "init"
    /\ inp = None
    /\ out = None
    /\ IMAGE_REG = EmptyMap
    /\ regRet = NoCall
    /\ mainPc = "setup"
    /\ frames = 0
    /\ SKYBOX_IMG = Unset
    /\ skyFs \in {<<"missing", "corrupt">>, <<"corrupt", "ok">>}
    /\ buffer = [i \in Slots |-> 0]
    /\ pending = {}
    /\ task = [w \in Workers |-> Idle]
    /\ writes = [i \in Slots |-> 0]
    /\ wrote = [i \in Slots |-> [idx |-> -1, x |-> -1, y |-> -1]]
    /\ initRuns = 0
    /\ fsTouches = 0
    /\ NoCast

\* where main calls register_image: before the loop
RegisterGuard_everyFrame == mainPc \in {"setup", "render"}

RegisterGuard == mainPc = "setup"

\* main.rs:187, register_image(1, "src/assets/marmol.jpg"); the file is there or not
MainSetup ==
    /\ RegisterGuard
    /\ \E path \in {"src/assets/marmol.jpg", "assets/missing.jpg"} :
          LET r == register_image(IMAGE_REG, 1, path)
          IN  /\ IMAGE_REG' = r.reg
              /\ regRet' = [id |-> 1, path |-> path, ret |-> r.ret]
    /\ mainPc' = IF mainPc = "setup" THEN "loop" ELSE mainPc
    /\ UNCHANGED <<pureVars, castVars, frames, SKYBOX_IMG, skyFs, buffer, pending, task,
                   writes, wrote, initRuns, fsTouches>>

\* the window is closed or Escape is down
MainExit ==
    /\ mainPc = "loop"
    /\ mainPc' = "exit"
    /\ UNCHANGED <<pureVars, castVars, texVars, frames, SKYBOX_IMG, skyFs, buffer, pending,
                   task, writes, wrote, initRuns, fsTouches>>

\* fb.clear(); fast::render(...) up to the start of the parallel for_each
RenderStart ==
    /\ mainPc = "loop"
    /\ frames < MaxFrames
    /\ mainPc' = "render"
    /\ frames' = frames + 1
    /\ buffer' = FbClear(buffer)
    /\ pending' = Slots
    /\ writes' = [i \in Slots |-> 0]
    /\ wrote' = [i \in Slots |-> [idx |-> -1, x |-> -1, y |-> -1]]
    /\ UNCHANGED <<pureVars, castVars, texVars, SKYBOX_IMG, skyFs, task, initRuns, fsTouches>>

\* par_iter_mut().enumerate(): an index is handed to one closure call
ClaimIndex_keep(idxs, idx) == idxs

ClaimIndex(idxs, idx) == idxs \ {idx}

\* a worker starts the closure on (idx, pixel): x, y and the ray. The indices are
\* taken in ascending order (rayon's splitting may take them in another order, which
\* changes no slot's writer); which worker gets an index and in which order the
\* closure calls run and finish is the scheduler's choice
TaskStart(w, idx) ==
    /\ mainPc = "render"
    /\ task[w].phase = "idle"
    /\ idx \in pending /\ \A j \in pending : idx <= j
    /\ pending' = ClaimIndex(pending, idx)
    /\ task' = [task EXCEPT ![w] =
                   [idx |-> idx, x |-> PixelOf(idx)[1], y |-> PixelOf(idx)[2],
                    phase |-> "cast", sky |-> SkyCallsOf(idx),
                    dir |-> PrimaryDir(idx), col |-> black,
                    cand |-> 0]]
    /\ UNCHANGED <<pureVars, castVars, texVars, mainPc, frames, SKYBOX_IMG, skyFs, buffer,
                   writes, wrote, initRuns, fsTouches>>

\* OnceCell::get_or_init runs the closure of a caller only when the cell is unset
\* and no other caller is running its closure
CanStartInit_unguarded == ~SKYBOX_IMG.set

CanStartInit == ~SKYBOX_IMG.set /\ \A w \in Workers : task[w].phase # "init"

\* sample_color: load_skybox_if_needed finds the cell unset and starts the closure
InitBegin(w) ==
    /\ task[w].phase = "cast"
    /\ task[w].sky > 0
    /\ CanStartInit
    /\ task' = [task EXCEPT ![w].phase = "init", ![w].cand = 1]
    /\ initRuns' = initRuns + 1
    /\ UNCHANGED <<pureVars, castVars, texVars, mainPc, frames, SKYBOX_IMG, skyFs, buffer,
                   pending, writes, wrote, fsTouches>>

\* the closure tries one candidate: p.exists(), then image::open(p); the cell is set
\* when a candidate decodes or none is left
InitProbe(w) ==
    /\ task[w].phase = "init"
    /\ LET k == task[w].cand
       IN  /\ fsTouches' = fsTouches + (IF skyFs[k] = "missing" THEN 1 ELSE 2)
           /\ IF skyFs[k] = "ok"
              THEN /\ SKYBOX_IMG' = Loaded(SkyImage(k))
                   /\ task' = [task EXCEPT ![w].phase = "cast"]
              ELSE IF k < Len(Candidates)
              THEN /\ task' = [task EXCEPT ![w].cand = k + 1]
                   /\ UNCHANGED SKYBOX_IMG
              ELSE /\ SKYBOX_IMG' = Absent
                   /\ task' = [task EXCEPT ![w].phase = "cast"]
    /\ UNCHANGED <<pureVars, castVars, texVars, mainPc, frames, skyFs, buffer, pending,
                   writes, wrote, initRuns>>

\* sample_color with the cell set: the image lookup or the gradient
SkyRead(w) ==
    /\ task[w].phase = "cast"
    /\ task[w].sky > 0
    /\ SKYBOX_IMG.set
    /\ LET c == sample_color(SKYBOX_IMG, task[w].dir)
       IN  task' = [task EXCEPT ![w].sky = @ - 1, ![w].col = c]
    /\ UNCHANGED <<pureVars, castVars, texVars, mainPc, frames, SKYBOX_IMG, skyFs, buffer,
                   pending, writes, wrote, initRuns, fsTouches>>

\* *pixel = col.to_hex(): the closure's pixel is the slot of its index
TaskWrite(w) ==
    /\ task[w].phase = "cast"
    /\ task[w].sky = 0
    /\ LET t == task[w]
       IN  /\ buffer' = [buffer EXCEPT ![t.idx] = to_hex(t.col)]
           /\ writes' = [writes EXCEPT ![t.idx] = @ + 1]
           /\ wrote' = [wrote EXCEPT ![t.idx] = [idx |-> t.idx, x |-> t.x, y |-> t.y]]
    /\ task' = [task EXCEPT ![w] = Idle]
    /\ UNCHANGED <<pureVars, castVars, texVars, mainPc, frames, SKYBOX_IMG, skyFs, pending,
                   initRuns, fsTouches>>

\* for_each returns when every index was handed out and every closure returned
RenderEnd ==
    /\ mainPc = "render"
    /\ pending = {}
    /\ \A w \in Workers : task[w].phase = "idle"
    /\ mainPc' = "loop"
    /\ UNCHANGED <<pureVars, castVars, texVars, frames, SKYBOX_IMG, skyFs, buffer, pending,
                   task, writes, wrote, initRuns, fsTouches>>

Next ==
    \/ MainSetup
    \/ MainExit
    \/ RenderStart
    \/ \E w \in Workers, idx \in Slots : TaskStart(w, idx)
    \/ \E w \in Workers : InitBegin(w)
    \/ \E w \in Workers : InitProbe(w)
    \/ \E w \in Workers : SkyRead(w)
    \/ \E w \in Workers : TaskWrite(w)
    \/ RenderEnd

Spec == Init /\ [][Next]_vars

\* C1: in a render call every slot is written at most once, a slot is written by
\* the closure call of its own index, whose pixel is (idx mod W, idx div W), no two
\* running closure calls have the same index, and when the call has returned every
\* slot has been written exactly once.
C1_EachSlotOnce ==
    /\ \A i \in Slots : writes[i] <= 1
    /\ \A i \in Slots :
          writes[i] >= 1 =>
              wrote[i] = [idx |-> i, x |-> i % FbWidth, y |-> i \div FbWidth]
    /\ \A w1, w2 \in Workers :
          (w1 # w2 /\ task[w1].phase # "idle" /\ task[w2].phase # "idle") =>
              task[w1].idx # task[w2].idx
    /\ \A w \in Workers :
          task[w].phase # "idle" =>
              (writes[task[w].idx] = 0 /\ task[w].idx \notin pending)
    /\ (mainPc \in {"loop", "exit"} /\ frames >= 1) => \A i \in Slots : writes[i] = 1

\* a render call that has returned, every slot written
C1_Witness ==
    /\ mainPc = "loop"
    /\ frames >= 1
    /\ \A i \in Slots : writes[i] = 1 /\ wrote[i].idx = i

\* C2: the skybox initializer runs at most once; once the cell is set it is never
\* written again, the initializer never runs again and the file system is never
\* touched again; every sample_color call returns with the cell set by exactly one
\* run, and when the load failed it returns the gradient.
C2_LoadOnce ==
    [][/\ initRuns' <= 1
       /\ SKYBOX_IMG.set =>
             (SKYBOX_IMG' = SKYBOX_IMG /\ initRuns' = initRuns
              /\ fsTouches' = fsTouches)
       /\ \A w \in Workers :
             (task[w].phase = "cast" /\ task'[w].phase = "cast"
              /\ task'[w].sky < task[w].sky) =>
                 /\ SKYBOX_IMG.set /\ initRuns = 1
                 /\ ~SKYBOX_IMG.some => task'[w].col = SkyGradient(task[w].dir)
      ]_vars

\* one worker runs the initializer while another, in its first sample_color call,
\* waits for it
C2_Witness ==
    \E w1, w2 \in Workers :
        /\ w1 # w2
        /\ task[w1].phase = "init"
        /\ task[w2].phase = "cast" /\ task[w2].sky > 0
        /\ initRuns = 1
        /\ ~SKYBOX_IMG.set

\* C3 as stated: while a render call is in progress, and from the start of the
\* first render call on, neither the texture registry nor the skybox memo is
\* written.
C3_NoWriteFromFirstRender ==
    [][(mainPc = "render" \/ frames >= 1) =>
           (IMAGE_REG' = IMAGE_REG /\ SKYBOX_IMG' = SKYBOX_IMG)]_vars

\* C3 amended: the texture registry is written only by main before the first
\* render call; the skybox memo is written only inside a render call, at most once,
\* and never after it is set.
C3_RegistryFrozenMemoOnce ==
    [][/\ (mainPc # "setup") => IMAGE_REG' = IMAGE_REG
       /\ SKYBOX_IMG' # SKYBOX_IMG => (mainPc = "render" /\ ~SKYBOX_IMG.set)
      ]_vars

\* a later render call in progress with the memo set by an earlier one and the
\* texture registered
C3_Witness ==
    /\ mainPc = "render"
    /\ frames >= 2
    /\ SKYBOX_IMG.set
    /\ 1 \in DOMAIN IMAGE_REG
    /\ \E w \in Workers : task[w].phase = "cast" /\ task[w].sky > 0

-----------------------------------------------------------------------------
(* Specification SpecCast: one primary cast_ray call on a scene laid out    *)
(* along the x axis, surfaces at even and lights at odd coordinates         *)

MaxCastObjects == 2
MaxCastLights == 1

\* a mirror: reflectivity 1, transparency 0
Mirror == with_reflectivity(MaterialNew(Color(200 * CQ, 200 * CQ, 200 * CQ), 10, <<6, 3>>), WQ)

\* glass: half of the light reflected, half transmitted
Glass ==
    with_ior(with_transparency(with_reflectivity(
        MaterialNew(Color(40 * CQ, 80 * CQ, 120 * CQ), 50, <<1, 8>>), WQ \div 2),
        WQ \div 2), (3 * WQ) \div 2)

\* the marble of main: textured, with an emission
Marble ==
    with_emission(with_texture(MaterialNew(Color(90 * CQ, 60 * CQ, 30 * CQ), 0, <<9, 1>>),
                               Image(1, UQ)),
                  Color(10 * CQ, 0, 0))

CastPrimitives ==
    {Sphere(Vec3(-6, 0, 0), 2, Mirror),
     Cube(Vec3(6, 0, 0), 4, Mirror),
     Sphere(Vec3(0, 0, 0), 2, Glass),
     Cube(Vec3(-12, 0, 0), 4, Marble),
     Cube(Vec3(-6, 0, 0), 4, Marble)}

\* the scenes: up to MaxCastObjects primitives, up to MaxCastLights white lights, a
\* primary ray from a point of the x axis along x or upwards; and a hall of glass,
\* a glass sphere between two glass cubes, in which every ray down to depth
\* MAX_RAY_DEPTH - 1 meets glass
CastScenes ==
    LET lights == SeqsUpTo({Light(Vec3(x, 0, 0), Color(255 * CQ, 255 * CQ, 255 * CQ), 1)
                                : x \in {-3, 9}}, MaxCastLights)
    IN  [objects : SeqsUpTo(CastPrimitives, MaxCastObjects),
         lights : lights,
         origin : {Vec3(-3, 0, 0), Vec3(3, 0, 0)},
         dir : {Vec3(1, 0, 0), Vec3(-1, 0, 0), Vec3(0, 1, 0)}]
        \cup [objects : {<<Cube(Vec3(-6, 0, 0), 4, Glass), Sphere(Vec3(0, 0, 0), 2, Glass),
                           Cube(Vec3(6, 0, 0), 4, Glass)>>},
              lights : lights,
              origin : {Vec3(3, 0, 0)},
              dir : {Vec3(-1, 0, 0)}]

\* whether no primitive of the scene reports an intersection for the primary ray
NoHit(sc) ==
    \A k \in 1..Len(sc.objects) :
        ~ray_intersect(sc.objects[k], sc.origin, sc.dir).is_intersecting

\* the scenes on which the model's arithmetic is exact: a primary ray along the x
\* axis, or one that every primitive misses without a square root
CastExact(sc) ==
    \/ sc.dir[2] = 0 /\ sc.dir[3] = 0
    \/ /\ \A k \in 1..Len(sc.objects) :
              (sc.objects[k].kind = "Sphere" =>
                   Dot(VSub(sc.objects[k].center, sc.origin),
                       VSub(sc.objects[k].center, sc.origin))
                       > sc.objects[k].radius * sc.objects[k].radius)
       /\ NoHit(sc)

InitCast ==
    /\ pc = "init"
    /\ inp = None
    /\ out = None
    /\ IMAGE_REG = register_image(EmptyMap, 1, "src/assets/marmol.jpg").reg
    /\ regRet = NoCall
    /\ mainPc = "off"
    /\ frames = 0
    /\ SKYBOX_IMG \in {Absent, Loaded(SkyImage(1))}
    /\ skyFs = <<"missing", "missing">>
    /\ buffer = [i \in Slots |-> 0]
    /\ pending = {}
    /\ task = [w \in Workers |-> Idle]
    /\ writes = [i \in Slots |-> 0]
    /\ wrote = [i \in Slots |-> [idx |-> -1, x |-> -1, y |-> -1]]
    /\ initRuns = 0
    /\ fsTouches = 0
    /\ scene \in {sc \in CastScenes : CastExact(sc)}
    /\ stack = <<>>
    /\ castRes = NoColor
    /\ castCalls = 0
    /\ castDepth = 0

NextCast ==
    \/ CastStart
    \/ CastScan
    \/ CastShade
    \/ CastReflect
    \/ CastRefract
    \/ CastCompose
    \/ CastReturn

\* the primary call has returned: no step of cast_ray is left
CastDone == castRes.some /\ stack = <<>>

\* cast_ray is sequential code, a call that can take a step takes it: weak fairness
\* of NextCast, which is enabled exactly until the primary call has returned
SpecCast == InitCast /\ [][NextCast]_vars /\ ([]<>CastDone \/ []<><<NextCast>>_vars)

\* C4: the primary cast_ray call returns, and no cast_ray call of its call tree
\* has a depth argument greater than MAX_RAY_DEPTH.
C4_TerminatesWithinDepth ==
    /\ [](/\ castDepth <= MAX_RAY_DEPTH
          /\ \A k \in 1..Len(stack) : stack[k].depth <= MAX_RAY_DEPTH)
    /\ <>CastDone

\* two mirrors of reflectivity 1 face each other, the ray bounced between them down
\* to depth MAX_RAY_DEPTH, and the primary call has returned
C4_Witness ==
    /\ castRes.some
    /\ stack = <<>>
    /\ castDepth = MAX_RAY_DEPTH
    /\ Len(scene.objects) >= 2
    /\ \A k \in 1..Len(scene.objects) :
          scene.objects[k].material.reflectivity = WQ

\* C12: the intersection cast_ray shades is the one of smallest distance among the
\* primitives that report a hit, whatever the order of the primitive list, and
\* among several primitives at that smallest distance it is the one of the
\* primitive that comes first in the list.
C12_ShadesNearestFirst ==
    (stack # <<>> /\ Top.stage = "shade") =>
        LET hit(k) == ray_intersect(scene.objects[k], Top.origin, Top.dir)
            hits == {k \in 1..Len(scene.objects) : hit(k).is_intersecting}
        IN  \E k \in hits :
                /\ Top.closest = hit(k)
                /\ \A j \in hits :
                       \/ hit(k).distance < hit(j).distance
                       \/ hit(k).distance = hit(j).distance /\ k <= j

\* the primary ray meets the mirror sphere and the marble cube at the same
\* distance, the cube is second in the list, and the sphere's hit is shaded
C12_Witness ==
    /\ Len(stack) = 1
    /\ Top.stage = "shade"
    /\ Len(scene.objects) = 2
    /\ LET i1 == ray_intersect(scene.objects[1], Top.origin, Top.dir)
           i2 == ray_intersect(scene.objects[2], Top.origin, Top.dir)
       IN  /\ i1.is_intersecting /\ i2.is_intersecting
           /\ i1.distance = i2.distance
           /\ i1.material # i2.material
           /\ Top.closest = i1

\* C5: when no primitive reports an intersection for the primary ray, cast_ray at
\* depth 0 returns exactly sample_color of the ray direction, whatever the lights
\* and the materials of the scene.
C5_MissReturnsSky ==
    (castRes.some /\ NoHit(scene)) =>
        castRes.c = sample_color(SKYBOX_IMG, scene.dir)

\* a ray that misses a scene with primitives, a light and a reflective material has
\* returned
C5_Witness ==
    /\ castRes.some
    /\ NoHit(scene)
    /\ castCalls = 1
    /\ Len(scene.lights) >= 1
    /\ \E k \in 1..Len(scene.objects) : scene.objects[k].material.reflectivity > 0
    /\ \E k \in 1..Len(scene.objects) : scene.objects[k].material.emission.some


\* C14 (as stated): a chain of reflection calls cut off by the depth bound ends in
\* a call that returns the environment color of its direction, so the reflection
\* component of the call at the bound is the environment color of the reflected
\* direction.
C14_CutOffContributesSky ==
    \A n \in 1..Len(stack) :
        (/\ stack[n].depth >= MAX_RAY_DEPTH
         /\ stack[n].stage = "compose"
         /\ ReflWeight(stack[n].closest.material) > 0) =>
            stack[n].refl_col =
                sample_color(SKYBOX_IMG,
                             Normalize(reflect(Normalize(stack[n].dir),
                                               stack[n].closest.normal)))

\* C14 (amended): no cast_ray call has a depth greater than MAX_RAY_DEPTH, so the
\* depth test at the head of cast_ray never returns the environment color; a
\* call at depth MAX_RAY_DEPTH makes no recursive call, and its reflection and
\* refraction components are black. The environment color is returned only by
\* a call whose ray misses every primitive.
C14_CutOffContributesBlack ==
    \A n \in 1..Len(stack) :
        /\ stack[n].depth <= MAX_RAY_DEPTH
        /\ stack[n].depth = MAX_RAY_DEPTH =>
               /\ n = Len(stack)
               /\ stack[n].refl_col = black
               /\ stack[n].refr_col = black
        /\ (stack[n].stage = "ret" /\ ~stack[n].closest.is_intersecting) =>
               /\ \A k \in 1..Len(scene.objects) :
                      ~ray_intersect(scene.objects[k], stack[n].origin,
                                     stack[n].dir).is_intersecting
               /\ stack[n].col = sample_color(SKYBOX_IMG, stack[n].dir)

\* a call at depth MAX_RAY_DEPTH that hit a reflective surface is about to
\* composite, with a black reflection component
C14_Witness ==
    /\ stack # <<>>
    /\ Top.depth = MAX_RAY_DEPTH
    /\ Top.stage = "compose"
    /\ ReflWeight(Top.closest.material) > 0
    /\ Top.refl_col = black
    /\ sample_color(SKYBOX_IMG,
                    Normalize(reflect(Normalize(Top.dir), Top.closest.normal))) # black


\* C15: each cast_ray call makes at most 2 recursive calls, each with its own
\* depth plus 1, so that one primary call at depth 0 causes at most 15 recursive
\* cast_ray calls in all.
C15_AtMostFifteenSecondary ==
    /\ \A n \in 1..Len(stack) :
           /\ stack[n].calls <= 2
           /\ stack[n].depth = n - 1
    /\ castCalls - 1 <= 15

\* the primary call has returned from the hall of glass, where every call down
\* to depth MAX_RAY_DEPTH - 1 made both recursive calls: 2 + 4 + 8 recursive calls
C15_Witness ==
    /\ castRes.some
    /\ stack = <<>>
    /\ castDepth = MAX_RAY_DEPTH
    /\ castCalls - 1 = 14

-----------------------------------------------------------------------------
(* Specification SpecShade: the reflection, refraction and composite part  *)
(* of cast_ray on a drawn hit, with the unit vectors in fifths so that the *)
(* ray meets the surface at an angle, and with drawn colors for the local  *)
(* illumination and for what the two recursive calls return                *)

InitShade ==
    /\ pc = "init"
    /\ inp \in {i \in [q : {5},
                       dir : {Vec3(x, y, 0) : x, y \in {-5, -4, -3, 0, 3, 4, 5}},
                       normal : {Vec3(0, 5, 0), Vec3(0, -5, 0), Vec3(5, 0, 0)},
                       material :
                           {with_ior(with_transparency(with_reflectivity(m, r), t), ior) :
                                m \in {Marble, with_texture(MaterialBlack, Checker(UQ))},
                                r \in {0, 5, 15}, t \in {-5, 0, 5, 15},
                                ior \in {5, 10, 15, 20}},
                       depth : 0..MAX_RAY_DEPTH,
                       local : {Color(100 * CQ, 100 * CQ, 100 * CQ)},
                       refl : {Color(200 * CQ, 0, 0)},
                       refr : {Color(0, 200 * CQ, 0)}] :
                    /\ Dot(i.dir, i.dir) = i.q * i.q
                    /\ LET c    == (-Dot(i.dir, i.normal)) \div i.q
                           eta  == Max(i.material.ior, WQ)
                           etai == IF c < 0 THEN eta ELSE WQ
                           etat == IF c < 0 THEN WQ ELSE eta
                           k2   == etat * etat * i.q * i.q
                                       - etai * etai * (i.q * i.q - c * c)
                       IN  k2 < 0 \/ IsSquare(k2)}
    /\ out = None
    /\ IMAGE_REG = EmptyMap
    /\ regRet = NoCall
    /\ NoRender
    /\ NoCast

\* cast_ray from the weights to the returned color; calls is the set of recursive
\* calls made
ShadeHit ==
    /\ pc = "init"
    /\ LET m == inp.material
           reflects == ReflWeight(m) > 0 /\ MayRecurse(inp.depth)
           d == refract_at(inp.q, inp.dir, inp.normal, Max(m.ior, WQ))
           refracts == TransWeight(m) > 0 /\ MayRecurse(inp.depth) /\ d.some
       IN  out' = [col |-> Composite(m, inp.local,
                                     IF reflects THEN inp.refl ELSE black,
                                     IF refracts THEN inp.refr ELSE black),
                   calls |-> {x \in {"reflect"} : reflects}
                                 \cup {x \in {"refract"} : refracts}]
    /\ pc' = "done"
    /\ UNCHANGED <<inp, texVars, renderVars, castVars>>

SpecShade == InitShade /\ [][ShadeHit]_vars

\* C16: for a hit cast_ray returns local * max(0, 1 - r - t) + reflectionColor * r
\* + refractionColor * t, plus the emission if there is one, with r and t the
\* reflectivity and the transparency clamped to [0, 1]; reflectionColor is what the
\* reflection call returns when r > 0 and depth < 3 and black otherwise;
\* refractionColor is what the refraction call returns when t > 0, depth < 3 and
\* the refraction discriminant is not negative, and black otherwise: on total
\* internal reflection no refraction call is made and none replaces it.
C16_CompositeFormula ==
    pc = "done" =>
        LET m    == inp.material
            r    == Min(Max(m.reflectivity, 0), WQ)
            t    == Min(Max(m.transparency, 0), WQ)
            c    == (-Dot(inp.dir, inp.normal)) \div inp.q
            eta  == IF m.ior < WQ THEN WQ ELSE m.ior
            from == IF c < 0 THEN eta ELSE WQ
            to   == IF c < 0 THEN WQ ELSE eta
            disc == to * to * inp.q * inp.q - from * from * (inp.q * inp.q - c * c)
            reflOn == r > 0 /\ inp.depth < 3
            refrOn == t > 0 /\ inp.depth < 3 /\ disc >= 0
            reflectionColor == IF reflOn THEN inp.refl ELSE black
            refractionColor == IF refrOn THEN inp.refr ELSE black
            sum == ColorAdd(ColorAdd(ColorMul(inp.local, Max(0, WQ - r - t), WQ),
                                     ColorMul(reflectionColor, r, WQ)),
                            ColorMul(refractionColor, t, WQ))
        IN  /\ out.col = IF m.emission.some THEN ColorAdd(sum, m.emission.c) ELSE sum
            /\ ("reflect" \in out.calls) = reflOn
            /\ ("refract" \in out.calls) = refrOn

\* total internal reflection: a ray leaves glass of index 1.5 at 53 degrees from
\* the normal, below the depth bound, in a material that reflects and transmits;
\* the reflection call alone was made and the color has no refraction part
C16_Witness ==
    /\ pc = "done"
    /\ inp.dir = Vec3(4, 3, 0)
    /\ inp.normal = Vec3(0, 5, 0)
    /\ inp.material.ior = 15
    /\ inp.material.reflectivity = 5
    /\ inp.material.transparency = 5
    /\ ~inp.material.emission.some
    /\ inp.depth < MAX_RAY_DEPTH
    /\ out.calls = {"reflect"}
    /\ out.col = Color(100 * CQ, 0, 0)

-----------------------------------------------------------------------------
(* Specification SpecTex: Texture::sample applied to drawn textures and    *)
(* coordinates, at (u, v), (u + 1, v) and (u, v + 1)                       *)

\* the largest texture scale drawn, a count of 1/UQ
MaxScale == 8
\* the largest texture coordinate drawn, a count of 1/UQ
MaxTexCoord == 8

ImageIds == {1, 2}
TexScales == 1..MaxScale

Textures ==
    {Checker(s) : s \in TexScales}
    \cup {Stripes(s, a) : s \in TexScales, a \in {"U", "V"}}
    \cup {MarbleProc(s) : s \in TexScales}
    \cup {Image(i, s) : i \in ImageIds, s \in TexScales}

\* the registry as main leaves it: register_image(1, ...) failed or succeeded
InitTex ==
    /\ pc = "init"
    /\ inp \in [tex : Textures, u : (-MaxTexCoord)..MaxTexCoord,
               v : (-MaxTexCoord)..MaxTexCoord]
    /\ out = None
    /\ \E path \in {"src/assets/marmol.jpg", "assets/missing.jpg"} :
          LET r == register_image(EmptyMap, 1, path)
          IN  /\ IMAGE_REG = r.reg
              /\ regRet = [id |-> 1, path |-> path, ret |-> r.ret]
    /\ NoRender
    /\ NoCast

SampleTexture ==
    /\ pc = "init"
    /\ out' = [s  |-> sample(IMAGE_REG, inp.tex, inp.u, inp.v),
               su |-> sample(IMAGE_REG, inp.tex, inp.u + UQ, inp.v),
               sv |-> sample(IMAGE_REG, inp.tex, inp.u, inp.v + UQ),
               l  |-> TextureLookup(IMAGE_REG, inp.tex, inp.u, inp.v),
               lu |-> TextureLookup(IMAGE_REG, inp.tex, inp.u + UQ, inp.v),
               lv |-> TextureLookup(IMAGE_REG, inp.tex, inp.u, inp.v + UQ)]
    /\ pc' = "done"
    /\ UNCHANGED <<inp, texVars, renderVars, castVars>>

SpecTex == InitTex /\ [][SampleTexture]_vars

\* C8 as stated: for every texture kind, scale and (u, v),
\* sample(u, v) = sample(u + 1, v) = sample(u, v + 1).
C8_SamplePeriodic ==
    pc = "done" => (out.s = out.su /\ out.s = out.sv)

\* C8 amended: the lookup cast_ray makes, sample(fract(u), fract(v)), has period 1
\* in u and in v for every texture kind and scale when u >= 0 and v >= 0.
C8_LookupPeriodic ==
    (pc = "done" /\ inp.u >= 0 /\ inp.v >= 0) =>
        (out.l = out.lu /\ out.l = out.lv)

\* a checker of odd scale looked up at a coordinate where sample itself is not
\* periodic while the lookup is
C8_Witness ==
    /\ pc = "done"
    /\ inp.tex.kind = "Checker"
    /\ inp.u >= 0 /\ inp.v >= 0
    /\ out.s # out.su
    /\ out.l = out.lu /\ out.l = out.lv

-----------------------------------------------------------------------------
(* Specification SpecReg: register_image calls, then one Image sample      *)

InitReg ==
    /\ pc = "setup"
    /\ inp = None
    /\ out = None
    /\ IMAGE_REG = EmptyMap
    /\ regRet = NoCall
    /\ NoRender
    /\ NoCast

RegisterImage(id, path) ==
    /\ pc = "setup"
    /\ LET r == register_image(IMAGE_REG, id, path)
       IN  /\ IMAGE_REG' = r.reg
           /\ regRet' = [id |-> id, path |-> path, ret |-> r.ret]
    /\ UNCHANGED <<pureVars, renderVars, castVars>>

SampleImage(tex, u, v) ==
    /\ pc = "setup"
    /\ inp' = [tex |-> tex, u |-> u, v |-> v]
    /\ out' = sample(IMAGE_REG, tex, u, v)
    /\ pc' = "done"
    /\ UNCHANGED <<texVars, renderVars, castVars>>

NextReg ==
    \/ \E id \in ImageIds,
          path \in {"src/assets/marmol.jpg", "assets/other.png", "assets/broken.jpg",
                    "assets/missing.jpg"} : RegisterImage(id, path)
    \/ \E id \in ImageIds, s \in {UQ, MaxScale}, u \in 0..UQ, v \in 0..UQ :
          SampleImage(Image(id, s), u, v)

SpecReg == InitReg /\ [][NextReg]_vars

Gray == Color(200 * CQ, 200 * CQ, 200 * CQ)

\* C6: a register_image call whose decode fails returns false and leaves the
\* registry as it was; a call that returns true leaves its id in the registry, and
\* a call whose decode succeeds returns true; sampling an Image texture whose id is
\* not registered returns the gray (200, 200, 200).
C6_RegisterAndFallback ==
    [][/\ (regRet' # regRet \/ IMAGE_REG' # IMAGE_REG) =>
            /\ ~ImageOpen(regRet'.path).ok =>
                   (regRet'.ret = FALSE /\ IMAGE_REG' = IMAGE_REG)
            /\ ImageOpen(regRet'.path).ok => regRet'.ret = TRUE
            /\ regRet'.ret = TRUE =>
                   /\ regRet'.id \in DOMAIN IMAGE_REG'
                   /\ IMAGE_REG'[regRet'.id] = ImageOpen(regRet'.path).img
       /\ (pc' = "done" /\ inp'.tex.id \notin DOMAIN IMAGE_REG') => out' = Gray
      ]_vars

\* after a successful and then a failed registration, an unregistered id sampled
C6_Witness ==
    /\ pc = "done"
    /\ regRet # NoCall /\ regRet.ret = FALSE
    /\ IMAGE_REG # EmptyMap
    /\ inp.tex.id \notin DOMAIN IMAGE_REG
    /\ out = Gray


-----------------------------------------------------------------------------
(* Specification SpecGeom: ray_intersect applied to drawn primitives and   *)
(* rays                                                                    *)

\* the largest sphere radius, the largest cube half size and the largest
\* coordinate of a ray origin drawn
MaxRadius == 3
MaxHalf == 2
MaxCoord == 4

GeomPrimitives ==
    {Sphere(Zeros, r, MaterialBlack) : r \in 1..MaxRadius}
    \cup {Cube(Zeros, 2 * h, MaterialBlack) : h \in 1..MaxHalf}

InitGeom ==
    /\ pc = "init"
    /\ inp \in {i \in [obj : GeomPrimitives,
                       origin : [1..3 -> (-MaxCoord)..MaxCoord],
                       dir : Axes] : IntersectExact(i.obj, i.origin, i.dir)}
    /\ out = None
    /\ IMAGE_REG = EmptyMap
    /\ regRet = NoCall
    /\ NoRender
    /\ NoCast

Intersect ==
    /\ pc = "init"
    /\ out' = ray_intersect(inp.obj, inp.origin, inp.dir)
    /\ pc' = "done"
    /\ UNCHANGED <<inp, texVars, renderVars, castVars>>

SpecGeom == InitGeom /\ [][Intersect]_vars

\* C10: every intersection reported as a hit by the sphere or the cube test has a
\* distance strictly greater than 0.
C10_HitDistancePositive ==
    (pc = "done" /\ out.is_intersecting) => out.distance > 0

\* C13: the sphere test reports no hit only when the ray has no non-negative
\* root (a rejection on tca < 0 only with both roots negative), and a reported
\* hit has the smaller of the non-negative roots as its distance. The roots are
\* those of t^2 - 2 tca t + (l.l - radius^2) = 0.
C13_NoHitOnlyWithoutRoot ==
    (pc = "done" /\ inp.obj.kind = "Sphere") =>
        LET l   == VSub(inp.obj.center, inp.origin)
            tca == Dot(l, inp.dir)
            c   == Dot(l, l) - inp.obj.radius * inp.obj.radius
            hasRoot == tca * tca >= c /\ (tca >= 0 \/ c <= 0)
        IN  /\ ~out.is_intersecting => ~hasRoot
            /\ out.is_intersecting =>
                   LET t     == out.distance
                       other == 2 * tca - t
                   IN  /\ t >= 0
                       /\ t * t - 2 * tca * t + c = 0
                       /\ other < 0 \/ other >= t

-----------------------------------------------------------------------------
(* Specification SpecNormal: the normal choice of Cube::ray_intersect      *)
(* applied to drawn local hit points, the points of the faces, edges and   *)
(* corners of the cubes of half size 1..MaxHalf                            *)

InitNormal ==
    /\ pc = "init"
    /\ inp \in [1..3 -> (-MaxHalf)..MaxHalf] \ {Zeros}
    /\ out = None
    /\ IMAGE_REG = EmptyMap
    /\ regRet = NoCall
    /\ NoRender
    /\ NoCast

FaceNormal ==
    /\ pc = "init"
    /\ out' = CubeNormal(inp)
    /\ pc' = "done"
    /\ UNCHANGED <<inp, texVars, renderVars, castVars>>

SpecNormal == InitNormal /\ [][FaceNormal]_vars

\* C11 (as stated): the cube hit normal is the signed unit axis of the local hit
\* coordinate with the largest absolute value, and among coordinates that tie for
\* the largest absolute value the axis is taken by priority X over Y over Z.
C11_TieEarlierAxis ==
    pc = "done" =>
        LET m == Max(Max(Abs(inp[1]), Abs(inp[2])), Abs(inp[3]))
            k == CHOOSE k \in 1..3 :
                     /\ Abs(inp[k]) = m
                     /\ \A j \in 1..3 : Abs(inp[j]) = m => k <= j
        IN  out = [i \in 1..3 |-> IF i = k THEN Signum(inp[k]) ELSE 0]

\* C11 (amended): the cube hit normal is the signed unit axis of the local hit
\* coordinate with the largest absolute value, and among coordinates that tie for
\* the largest absolute value the later axis is taken, Z over Y over X.
C11_TieLaterAxis ==
    pc = "done" =>
        LET m == Max(Max(Abs(inp[1]), Abs(inp[2])), Abs(inp[3]))
            k == CHOOSE k \in 1..3 :
                     /\ Abs(inp[k]) = m
                     /\ \A j \in 1..3 : Abs(inp[j]) = m => j <= k
        IN  out = [i \in 1..3 |-> IF i = k THEN Signum(inp[k]) ELSE 0]

\* a hit on the edge between an X face and a Y face has got the Y normal
C11_Witness ==
    /\ pc = "done"
    /\ Abs(inp[1]) = Abs(inp[2])
    /\ Abs(inp[1]) > Abs(inp[3])
    /\ out = Vec3(0, Signum(inp[2]), 0)

-----------------------------------------------------------------------------
(* Specification SpecShadow: cast_shadow applied to a drawn hit, light and *)
(* primitive list, and to the list with each one primitive left out        *)

\* the largest distance of the light and the longest primitive list drawn
MaxLightDist == 4
MaxShadowObjects == 3

\* primitives around the segment from the hit point (0, 0, 0) to a light on +x:
\* between the two, beyond the light, behind the point, touching the shadow ray,
\* and the surface the point lies on
ShadowPrimitives ==
    {Sphere(Vec3(2, 0, 0), 1, MaterialBlack),
     Sphere(Vec3(MaxLightDist + 3, 0, 0), 1, MaterialBlack),
     Sphere(Vec3(-3, 0, 0), 1, MaterialBlack),
     Sphere(Vec3(-2, 0, 0), 2, MaterialBlack),
     Cube(Vec3(3, 0, 0), 2, MaterialBlack),
     Cube(Vec3(2, 2, 0), 2, MaterialBlack)}

\* the list without its k-th primitive
RemoveAt(q, k) == [j \in 1..(Len(q) - 1) |-> IF j < k THEN q[j] ELSE q[j + 1]]

InitShadow ==
    /\ pc = "init"
    /\ inp \in {i \in [intersect : {IntersectNew(Zeros, n, 1, MaterialBlack) : n \in Axes},
                       light : {Light(Vec3(k, 0, 0), Color(255 * CQ, 255 * CQ, 255 * CQ), 1)
                                    : k \in 1..MaxLightDist},
                       objects : SeqsUpTo(ShadowPrimitives, MaxShadowObjects)] :
                    ShadowExact(i.intersect, i.light, i.objects)}
    /\ out = None
    /\ IMAGE_REG = EmptyMap
    /\ regRet = NoCall
    /\ NoRender
    /\ NoCast

CastShadow ==
    /\ pc = "init"
    /\ out' = [all |-> cast_shadow(inp.intersect, inp.light, inp.objects),
               without |-> [k \in 1..Len(inp.objects) |->
                               cast_shadow(inp.intersect, inp.light,
                                           RemoveAt(inp.objects, k))]]
    /\ pc' = "done"
    /\ UNCHANGED <<inp, texVars, renderVars, castVars>>

SpecShadow == InitShadow /\ [][CastShadow]_vars

\* C7: the shadow factor is 0.3 or 1.0, and the factor with a primitive added to
\* the list (at any place) is never above the factor without it: it is the same,
\* or 0.3 where it was 1.0.
C7_ShadowMonotonic ==
    pc = "done" =>
        /\ out.all \in {(3 * WQ) \div 10, WQ}
        /\ \A k \in 1..Len(inp.objects) :
              /\ out.without[k] \in {(3 * WQ) \div 10, WQ}
              /\ out.all <= out.without[k]
              /\ out.all # out.without[k] =>
                     (out.without[k] = WQ /\ out.all = (3 * WQ) \div 10)

\* three primitives of which the first is the only occluder: leaving it out lights
\* the point, leaving another out changes nothing
C7_Witness ==
    /\ pc = "done"
    /\ Len(inp.objects) = 3
    /\ out.all = (3 * WQ) \div 10
    /\ out.without[1] = WQ
    /\ out.without[2] = (3 * WQ) \div 10
    /\ out.without[3] = (3 * WQ) \div 10

-----------------------------------------------------------------------------
(* Specification SpecColor: to_hex applied to drawn colours                *)

\* channel values around the two clamping edges, in counts of 1/CQ
ChannelSamples ==
    {-300 * CQ, -1, 0, 1, CQ - 1, CQ, 128 * CQ + 1,
     255 * CQ - 1, 255 * CQ, 255 * CQ + 1, 256 * CQ, 1000 * CQ}

InitColor ==
    /\ pc = "init"
    /\ inp \in [r : ChannelSamples, g : ChannelSamples, b : ChannelSamples]
    /\ out = None
    /\ IMAGE_REG = EmptyMap
    /\ regRet = NoCall
    /\ NoRender
    /\ NoCast

PackColor ==
    /\ pc = "init"
    /\ out' = to_hex(inp)
    /\ pc' = "done"
    /\ UNCHANGED <<inp, texVars, renderVars, castVars>>

SpecColor == InitColor /\ [][PackColor]_vars

\* the channel as an integer in 0..255: below 0 gives 0, above 255 gives 255
ClampedChannel(x) ==
    IF x < 0 THEN 0 ELSE IF x > 255 * CQ THEN 255 ELSE x \div CQ

\* C9: to_hex packs the three clamped, truncated channels as
\* (R << 16) | (G << 8) | B: each byte of the result is its own channel, and
\* no bit above bit 23 is set.
C9_PackClamps ==
    pc = "done" =>
        /\ out = 65536 * ClampedChannel(inp.r) + 256 * ClampedChannel(inp.g)
                 + ClampedChannel(inp.b)
        /\ out < Pow2(24)
        /\ (out \div 65536) % 256 = ClampedChannel(inp.r)
        /\ (out \div 256) % 256 = ClampedChannel(inp.g)
        /\ out % 256 = ClampedChannel(inp.b)

\* a colour with one channel below 0, one above 255 and one fractional, packed
C9_Witness ==
    /\ pc = "done"
    /\ inp.r < 0
    /\ inp.g > 255 * CQ
    /\ inp.b % CQ # 0 /\ inp.b > 0 /\ inp.b < 255 * CQ
    /\ out = 65280 + inp.b \div CQ

====
